---------------------------- MODULE Spec2Model ----------------------------
(* News aggregator: the feed ingestion pipeline.                          *)
(*   Worker (internal/worker)           scheduling loop and per-cycle     *)
(*                                      fan-out of one unit per address   *)
(*   FeedProcessingUseCase.ProcessFeed  fetch -> parse -> save            *)
(*   HTTPFetcher.Fetch, XMLParser.Parse, PostgresNewsDB.SaveNews          *)
EXTENDS Integers, Sequences, FiniteSets, TLC

(***************************************************************************)
(* Bounds                                                                  *)
(***************************************************************************)
\* number of ticks the interval ticker fires within the explored horizon
MaxTicks == 1

\* App.DefaultNewsLimit, a positive number of the configuration (10 in the
\* default configuration), scaled to the tables explored
defaultNewsLimit == 2

(***************************************************************************)
(* Configuration and upstream documents                                    *)
(***************************************************************************)
\* Worker.urls: the configured feed addresses
Urls == {"u1", "u2"}

\* time.Time values are modelled as integers; NoTime is the zero time.Time
NoTime == 0

\* the layouts parsePubDate tries, in its order
formats == <<"RFC1123Z", "RFC1123", "RFC822Z", "RFC822", "Mon, 2 Jan 2006 15:04:05 -0700">>

\* A date string is its leading white space, its text from the first to the
\* last character that is not white space, and its trailing white space.
Str(pre, core, post) == [pre |-> pre, core |-> core, post |-> post]

\* time.Parse(format, s): the time s denotes under the layout, NoTime when
\* s does not match the layout.  A layout matches the whole string, so no
\* layout matches a string with white space around it.  "02" takes two
\* digits and "2" one or two; "MST" takes a zone abbreviation or a signed
\* offset of at most two digits' value, which "+0000" is and "-0700" is not.
timeParse(format, s) ==
    IF s.pre # "" \/ s.post # "" THEN NoTime
    ELSE CASE format = "RFC1123" /\ s.core = "Mon, 02 Jan 2006 15:04:05 MST" -> 1
           [] format = "RFC1123" /\ s.core = "Tue, 03 Jan 2006 12:00:00 GMT" -> 2
           [] format = "RFC1123Z" /\ s.core = "Wed, 04 Jan 2006 09:00:00 +0000" -> 3
           [] format = "RFC1123" /\ s.core = "Wed, 04 Jan 2006 09:00:00 +0000" -> 3
           [] format = "Mon, 2 Jan 2006 15:04:05 -0700"
              /\ s.core = "Wed, 04 Jan 2006 09:00:00 +0000" -> 3
           [] format = "Mon, 2 Jan 2006 15:04:05 -0700"
              /\ s.core = "Wed, 4 Jan 2006 09:00:00 +0000" -> 3
           [] format = "RFC822Z" /\ s.core = "02 Jan 06 15:04 -0700" -> 5
           [] format = "RFC822" /\ s.core = "02 Jan 06 15:04 MST" -> 4
           [] OTHER -> NoTime

\* strings.TrimSpace: the string without its leading and trailing white space
TrimSpace(s) == Str("", s.core, "")

\* a parsePubDate that hands the string to time.Parse as it came
RECURSIVE tryFormats_untrimmed(_, _)
tryFormats_untrimmed(i, dateStr) ==
    IF i > Len(formats) THEN [ok |-> FALSE, t |-> NoTime, layout |-> 0]
    ELSE LET t == timeParse(formats[i], dateStr)
         IN  IF t # NoTime THEN [ok |-> TRUE, t |-> t, layout |-> i]
             ELSE tryFormats_untrimmed(i + 1, dateStr)

\* the loop over formats from position i on: layout is the position of the
\* layout whose time.Parse succeeded, 0 when the loop ran to its end
RECURSIVE tryFormats(_, _)
tryFormats(i, dateStr) ==
    IF i > Len(formats) THEN [ok |-> FALSE, t |-> NoTime, layout |-> 0]
    ELSE LET t == timeParse(formats[i], TrimSpace(dateStr))
         IN  IF t # NoTime THEN [ok |-> TRUE, t |-> t, layout |-> i]
             ELSE tryFormats(i + 1, dateStr)

\* parsePubDate: the first layout that matches wins
parsePubDate(dateStr) == tryFormats(1, dateStr)

itemXML(title, link, description, pubDate) ==
    [Title |-> title, Link |-> link, Description |-> description, PubDate |-> pubDate]

\* The documents an upstream source can serve.  decodable = FALSE is a body
\* xml.Decoder cannot decode.  An item without a <link> element decodes to
\* Link = "".
DocNames == {"d1", "d2", "empty", "bad"}

Doc(name) ==
    CASE name = "d1" ->
           [decodable |-> TRUE,
            items |-> << itemXML("Item 1", "a", "Descr 1", Str("", "Mon, 02 Jan 2006 15:04:05 MST", "")),
                         itemXML("Item 2", "b", "Descr 2", Str("", "not-a-date", "")),
                         itemXML("Item 3", "", "Descr 3", Str("", "Tue, 03 Jan 2006 12:00:00 GMT", "")) >>]
      [] name = "d2" ->
           [decodable |-> TRUE,
            items |-> << itemXML("Item 1 (edited)", "a", "Descr 1",
                                 Str(" ", "Tue, 03 Jan 2006 12:00:00 GMT", " ")),
                         itemXML("Item 2", "b", "Descr 2", Str("", "Wed, 04 Jan 2006 09:00:00 +0000", "")),
                         itemXML("Item 2 again", "b", "Descr 2", Str("", "Mon, 02 Jan 2006 15:04:05 MST", "")) >>]
      [] name = "empty" -> [decodable |-> TRUE, items |-> << >>]
      [] OTHER -> [decodable |-> FALSE, items |-> << >>]

(***************************************************************************)
(* XMLParser.Parse                                                         *)
(***************************************************************************)
Item(dto, pubDate) ==
    [Title |-> dto.Title, Link |-> dto.Link, Description |-> dto.Description,
     PubDate |-> pubDate]

\* a loop that ends at the first item whose date does not parse
RECURSIVE convertItems_stopAtBadDate(_)
convertItems_stopAtBadDate(dtos) ==
    IF dtos = << >> THEN << >>
    ELSE LET d == parsePubDate(Head(dtos).PubDate)
         IN  IF d.ok THEN <<Item(Head(dtos), d.t)>> \o convertItems_stopAtBadDate(Tail(dtos))
             ELSE << >>

\* the loop over rss.Channel.Items: items whose date does not parse are skipped
RECURSIVE convertItems(_)
convertItems(dtos) ==
    IF dtos = << >> THEN << >>
    ELSE LET d == parsePubDate(Head(dtos).PubDate)
         IN  IF d.ok THEN <<Item(Head(dtos), d.t)>> \o convertItems(Tail(dtos))
             ELSE convertItems(Tail(dtos))

\* Parse without the check of ctx.Err() at entry
Parse_noCtxCheck(ctxErr, name) ==
    IF ~Doc(name).decodable THEN
        [err |-> "decode", feed |-> FALSE, decoded |-> TRUE, items |-> << >>]
    ELSE
        [err |-> "nil", feed |-> TRUE, decoded |-> TRUE,
         items |-> convertItems(Doc(name).items)]

\* Parse(ctx, reader): ctxErr is ctx.Err() at entry ("nil" when live).
\* feed is TRUE when the *domain.Feed returned is not nil, decoded when
\* decoder.Decode was called on the reader.
Parse(ctxErr, name) ==
    IF ctxErr # "nil" THEN
        [err |-> ctxErr, feed |-> FALSE, decoded |-> FALSE, items |-> << >>]
    ELSE IF ~Doc(name).decodable THEN
        [err |-> "decode", feed |-> FALSE, decoded |-> TRUE, items |-> << >>]
    ELSE
        [err |-> "nil", feed |-> TRUE, decoded |-> TRUE,
         items |-> convertItems(Doc(name).items)]

(***************************************************************************)
(* PostgresNewsDB: table news, one row per INSERT that took effect         *)
(***************************************************************************)
Links(rows) == {rows[i].Link : i \in 1..Len(rows)}

\* the INSERT without its ON CONFLICT clause on a table without the UNIQUE
\* constraint
InsertRow_noConflict(rows, item) == Append(rows, item)

\* the INSERT with ON CONFLICT (link) DO UPDATE: the stored record takes the
\* values of the new item
InsertRow_upsert(rows, item) ==
    IF item.Link \in Links(rows)
    THEN [i \in 1..Len(rows) |-> IF rows[i].Link = item.Link THEN item ELSE rows[i]]
    ELSE Append(rows, item)

\* INSERT ... ON CONFLICT (link) DO NOTHING for one item
InsertRow(rows, item) ==
    IF item.Link \in Links(rows) THEN rows ELSE Append(rows, item)

\* a batch that skips the links the table held before the batch, without a
\* uniqueness check between its own statements
InsertBatch_checkedUpFront(rows, items) ==
    rows \o SelectSeq(items, LAMBDA item : item.Link \notin Links(rows))

\* the batch: the queued INSERTs run in queue order
RECURSIVE InsertBatch(_, _)
InsertBatch(rows, items) ==
    IF items = << >> THEN rows
    ELSE InsertBatch(InsertRow(rows, Head(items)), Tail(items))

\* SaveNews sending its batch on the pool, outside a transaction: the
\* statements that ran before the failing one stay in the table
SaveNews_noTransaction(ctxErr, rows, items, fault) ==
    IF Len(items) = 0 THEN
        [count |-> 0, err |-> "nil", rows |-> rows, tx |-> "none"]
    ELSE IF ctxErr # "nil" THEN
        [count |-> 0, err |-> ctxErr, rows |-> rows, tx |-> "none"]
    ELSE IF fault = "begin" THEN
        [count |-> 0, err |-> "begin", rows |-> rows, tx |-> "none"]
    ELSE IF fault = "batch" THEN
        [count |-> 0, err |-> "batch", rows |-> InsertRow(rows, Head(items)),
         tx |-> "none"]
    ELSE IF fault = "commit" THEN
        [count |-> 0, err |-> "commit", rows |-> rows, tx |-> "none"]
    ELSE
        [count |-> Len(items), err |-> "nil", rows |-> InsertBatch(rows, items),
         tx |-> "none"]

\* a SaveNews that begins its transaction before it looks at the feed
SaveNews_beginsFirst(ctxErr, rows, items, fault) ==
    IF ctxErr # "nil" THEN
        [count |-> 0, err |-> ctxErr, rows |-> rows, tx |-> "none"]
    ELSE IF fault = "begin" THEN
        [count |-> 0, err |-> "begin", rows |-> rows, tx |-> "none"]
    ELSE IF Len(items) = 0 THEN
        [count |-> 0, err |-> "nil", rows |-> rows, tx |-> "committed"]
    ELSE IF fault = "batch" THEN
        [count |-> 0, err |-> "batch", rows |-> rows, tx |-> "open"]
    ELSE IF fault = "commit" THEN
        [count |-> 0, err |-> "commit", rows |-> rows, tx |-> "rolledback"]
    ELSE
        [count |-> Len(items), err |-> "nil", rows |-> InsertBatch(rows, items),
         tx |-> "committed"]

\* SaveNews(ctx, feed) on the committed table rows.  fault is the step the
\* database fails at ("none": no failure); ctxErr is ctx.Err() at entry.
\* tx is the state the transaction is left in when SaveNews returns: the
\* deferred rollback tests the function-scope err, which the batch failure
\* does not set (it is returned through a variable of the if statement).
SaveNews(ctxErr, rows, items, fault) ==
    IF Len(items) = 0 THEN
        [count |-> 0, err |-> "nil", rows |-> rows, tx |-> "none"]
    ELSE IF ctxErr # "nil" THEN
        [count |-> 0, err |-> ctxErr, rows |-> rows, tx |-> "none"]
    ELSE IF fault = "begin" THEN
        [count |-> 0, err |-> "begin", rows |-> rows, tx |-> "none"]
    ELSE IF fault = "batch" THEN
        [count |-> 0, err |-> "batch", rows |-> rows, tx |-> "open"]
    ELSE IF fault = "commit" THEN
        [count |-> 0, err |-> "commit", rows |-> rows, tx |-> "rolledback"]
    ELSE
        [count |-> Len(items), err |-> "nil", rows |-> InsertBatch(rows, items),
         tx |-> "committed"]

SaveFaults == {"none", "begin", "batch", "commit"}

Min(a, b) == IF a <= b THEN a ELSE b

\* GetNews passing n to the query as it came
limitOf_noDefault(n) == n

\* GetNews: limit := n, replaced by db.defaultNewsLimit when n <= 0
limitOf(n) == IF n <= 0 THEN defaultNewsLimit ELSE n

\* SELECT ... FROM news ORDER BY pub_date DESC LIMIT limit, for limit >= 0:
\* the answers the database can give.  The order among rows of equal
\* pub_date is the database's choice.
Select(rows, limit) ==
    LET L == Min(limit, Len(rows))
        picks == {f \in [1..L -> 1..Len(rows)] :
                    /\ \A i, j \in 1..L :
                           i < j => /\ f[i] # f[j]
                                    /\ rows[f[i]].PubDate >= rows[f[j]].PubDate
                    /\ \A k \in 1..Len(rows) :
                           (\A i \in 1..L : f[i] # k)
                               => \A i \in 1..L : rows[k].PubDate <= rows[f[i]].PubDate}
    IN  {[i \in 1..L |-> rows[f[i]]] : f \in picks}

\* what the database does to a GetNews call: "none" it answers, "query"
\* pool.Query fails, "scan" collecting the rows fails
QueryFaults == {"none", "query", "scan"}

\* PostgresNewsDB.GetNews(ctx, n): the (items, err) pairs it can return.  A
\* negative LIMIT is an error of the query.
GetNews(rows, n, fault) ==
    IF fault # "none" THEN {[items |-> << >>, err |-> fault]}
    ELSE IF limitOf(n) < 0 THEN {[items |-> << >>, err |-> "query"]}
    ELSE {[items |-> r, err |-> "nil"] : r \in Select(rows, limitOf(n))}

\* NewsGetterUseCase.GetNews(ctx, limit)
UseCaseGetNews(rows, limit, fault) == GetNews(rows, limit, fault)

(***************************************************************************)
(* HTTPFetcher.Fetch                                                       *)
(***************************************************************************)
\* Fetch returning on a non-200 response without resp.Body.Close()
Fetch_statusNotClosed(ctxErr, outcome) ==
    IF outcome = "request" THEN [err |-> "request", reader |-> FALSE, body |-> "none"]
    ELSE IF ctxErr # "nil" THEN [err |-> ctxErr, reader |-> FALSE, body |-> "none"]
    ELSE IF outcome = "net" THEN [err |-> "net", reader |-> FALSE, body |-> "none"]
    ELSE IF outcome = "status" THEN [err |-> "status", reader |-> FALSE, body |-> "open"]
    ELSE [err |-> "nil", reader |-> TRUE, body |-> "open"]

\* outcome is what the request meets:
\*   "request" http.NewRequestWithContext rejects the URL,
\*   and, when the context is live, "ok" a 200 response, "status" a non-200
\*   response, "net" client.Do fails.
\* body is the state of the response body when Fetch returns; reader is
\* TRUE when Fetch hands the body to its caller.
Fetch(ctxErr, outcome) ==
    IF outcome = "request" THEN [err |-> "request", reader |-> FALSE, body |-> "none"]
    ELSE IF ctxErr # "nil" THEN [err |-> ctxErr, reader |-> FALSE, body |-> "none"]
    ELSE IF outcome = "net" THEN [err |-> "net", reader |-> FALSE, body |-> "none"]
    ELSE IF outcome = "status" THEN [err |-> "status", reader |-> FALSE, body |-> "closed"]
    ELSE [err |-> "nil", reader |-> TRUE, body |-> "open"]

FetchOutcomes == {"ok", "status", "net", "request"}

(***************************************************************************)
(* FeedProcessingUseCase.ProcessFeed: control flow                         *)
(***************************************************************************)
\* the feedNames map built from the configuration
feedNames == [u \in Urls |-> IF u = "u1" THEN "Feed One" ELSE "Feed Two"]

extractFeedName(url) ==
    IF url \in DOMAIN feedNames THEN feedNames[url] ELSE "Unknown"

\* fmt.Errorf("<stage> failed for %s: %w", feedName, err)
wrapError(stage, url, err) ==
    [stage |-> stage, feed |-> extractFeedName(url), cause |-> err]

\* the nil error, and the value of a result not yet decided
nilError == [stage |-> "nil", feed |-> "", cause |-> "nil"]
noResult == [stage |-> "none", feed |-> "", cause |-> "nil"]

\* ProcessFeed going on to the parser whatever Fetch returned
afterFetch_noCheck(err) == "parse"

\* ProcessFeed calling the parser again when it fails
afterParse_retry(err) == IF err # "nil" THEN "parse" ELSE "save"

\* where ProcessFeed continues after a stage returned err
afterFetch(err) == IF err # "nil" THEN "ret" ELSE "parse"
afterParse(err) == IF err # "nil" THEN "ret" ELSE "save"

\* ProcessFeed logging a save failure without returning it
processResult_saveSwallowed(stage, url, err) ==
    IF stage = "save" THEN nilError
    ELSE IF err # "nil" THEN wrapError(stage, url, err) ELSE noResult

\* what ProcessFeed's return value is once stage has returned err: the
\* wrapped error, nil after a successful save, still undecided after a
\* successful fetch or parse
processResult(stage, url, err) ==
    IF err # "nil" THEN wrapError(stage, url, err)
    ELSE IF stage = "save" THEN nilError ELSE noResult

\* ProcessFeed without the deferred Close
deferredClose_missing(body) == body

\* defer reader.Close(), run when ProcessFeed returns
deferredClose(body) == IF body = "open" THEN "closed" ELSE body

(***************************************************************************)
(* State                                                                   *)
(***************************************************************************)
VARIABLES
    wpc,            \* Worker: "created", "started" (goroutine launched, run
                    \* not yet in its first cycle), "cycle" (in
                    \* processAllFeeds), "select", "stopped" (run returned)
    wctx,           \* Worker.ctx: "unset", "live", "canceled"
    stopCalled,     \* Stop has been called
    tickPending,    \* a tick is buffered in ticker.C
    ticksFired,     \* ticks the ticker has fired
    ticksReceived,  \* ticks run has received from ticker.C
    cyclesStarted,  \* calls of processAllFeeds
    cancelledAtStart, \* Worker.ctx was cancelled when the cycle was entered
    launched,       \* per address: units launched so far
    successCount,   \* processAllFeeds: successCount
    errorCount,     \* processAllFeeds: errorCount
    summary,        \* the last "cycle completed" log record, NoSummary
                    \* before the first
    units,          \* per address: the unit of work of the current cycle
    rows,           \* table news: committed rows in insertion order
    lastDoc,        \* the address and document of the last ProcessFeed
                    \* call that reached the store if it succeeded, else
                    \* NoDoc
    news,           \* the last answer a read caller got from GetNews,
                    \* NoNews before the first
    app,            \* App: where Run and Shutdown are, the HTTP server's
                    \* goroutine, a.wg and a.dbPool
    date,           \* the last call of parsePubDate made on its own and
                    \* its result, NoDate before the first
    processor       \* Worker.processor: "set", or "nil" when worker.New
                    \* was given no processor

vars == <<wpc, wctx, stopCalled, tickPending, ticksFired, ticksReceived, cyclesStarted,
          cancelledAtStart, launched, successCount, errorCount,
          summary, units, rows, lastDoc, news, app, date, processor>>

\* what the steps of a unit before its counter update leave alone
workerVars == <<wpc, wctx, stopCalled, tickPending, ticksFired, ticksReceived, cyclesStarted,
                cancelledAtStart, launched, summary, successCount, errorCount,
                news, app, date, processor>>

\* a unit before its goroutine exists / a freshly launched goroutine
\*   pc:     "idle", "start", "fetch", "parse", "save", "count", "done"
\*           ("count": ProcessFeed has returned to the goroutine)
\*   opCtx:  "none", "live", "canceled", "deadline"
\*   body:   response body: "none", "open", "closed"
\*   doc:    the document the body carries
\*   reader: Fetch returned a stream
\*   feed:   what the parser returned: "none" before it returns, "nil", "set"
\*   decoded: the parser called decoder.Decode on the stream
\*   items:  feed.Items returned by the parser
\*   saved:  savedCount, the count SaveNews returned
\*   calls:  the collaborator calls of this ProcessFeed call, in order
\*   ret:    noResult before ProcessFeed returns, then nilError or the error
\*   tx:     the SaveNews transaction: "none", "open", "committed", "rolledback"
\*   rerun:  SaveNews was called with the document of the address's last
\*           successful ProcessFeed, no other SaveNews in between
\*   outcome: how the goroutine ended: "none" while it runs, "skipped" (it
\*           found the worker's context cancelled), "noprocessor" (it found
\*           no processor), "ok", "failed"
\* The fields up to rerun are the locals of the goroutine and of its
\* ProcessFeed call; they are gone when the goroutine ends.
NewUnit(pc) ==
    [pc |-> pc, opCtx |-> "none", body |-> "none", doc |-> "none",
     reader |-> FALSE, feed |-> "none", decoded |-> FALSE,
     items |-> << >>, saved |-> 0, calls |-> << >>, ret |-> noResult,
     tx |-> "none", rerun |-> FALSE, outcome |-> "none"]

NoDoc == [url |-> "none", doc |-> "none"]

NoSummary == [cycle |-> 0, successful |-> 0, errors |-> 0, total |-> 0]

NoNews == [n |-> 0, fault |-> "none", items |-> << >>, err |-> "none"]

\* the App that app.New returns
\*   pc:     where the goroutine that calls Run is: "new" (Run not called),
\*           "listen", "failed" (Run returned the listener's error), "wait"
\*           (in the select on stopChan), "shutdown", "server", "pool",
\*           "wgwait" (steps of Shutdown), "blocked" (inside a.wg.Wait()),
\*           "returned"
\*   server: the goroutine of server.Serve: "none", "serving", "closed"
\*           (Serve has returned), "exited" (its deferred wg.Done has run)
\*   wg:     the counter of a.wg
\*   pool:   a.dbPool: "open", "closed"
NewApp == [pc |-> "new", server |-> "none", wg |-> 0, pool |-> "open"]

NoDate == [called |-> FALSE, input |-> Str("", "", ""),
           result |-> [ok |-> FALSE, t |-> NoTime, layout |-> 0]]

\* the processors worker.New can be given
Processors == {"set", "nil"}

\* the worker and its counters after worker.New
InitWorker ==
    /\ wpc = "created"
    /\ wctx = "unset"
    /\ stopCalled = FALSE
    /\ tickPending = FALSE
    /\ ticksFired = 0
    /\ ticksReceived = 0
    /\ cyclesStarted = 0
    /\ cancelledAtStart = FALSE
    /\ launched = [u \in Urls |-> 0]
    /\ successCount = 0
    /\ errorCount = 0
    /\ summary = NoSummary
    /\ units = [u \in Urls |-> NewUnit("idle")]
    /\ lastDoc = NoDoc
    /\ processor \in Processors
    /\ app = NewApp
    /\ date = NoDate

\* a process started on an empty table
Init ==
    /\ InitWorker
    /\ rows = << >>
    /\ news = NoNews

\* ctx.Err() of a context in the given state
Err(c) == IF c = "canceled" THEN "canceled"
          ELSE IF c = "deadline" THEN "deadline" ELSE "nil"


Call(stage, err) == [stage |-> stage, err |-> err]

(***************************************************************************)
(* Worker.Start, Worker.Stop                                               *)
(***************************************************************************)
\* Worker.Start: context.WithCancel, go w.run()
workerStart ==
    /\ wpc = "created"
    /\ wctx' = "live"
    /\ wpc' = "started"
    /\ UNCHANGED <<stopCalled, tickPending, ticksFired, ticksReceived, cyclesStarted,
                   cancelledAtStart, launched, successCount,
                   errorCount, summary, units, rows, lastDoc, news, date, processor>>

\* the owner of a worker calls Start
Start == workerStart /\ UNCHANGED app

\* unit contexts made from context.Background(): cancelling Worker.ctx does
\* not reach them
cancelChildren_detached(us) == us

\* cancelling Worker.ctx cancels every context derived from it
cancelChildren(us) ==
    [u \in Urls |-> IF us[u].opCtx = "live" THEN [us[u] EXCEPT !.opCtx = "canceled"]
                    ELSE us[u]]

\* Worker.Stop: w.cancel() (App.Shutdown calls it after Start; a second
\* cancel is a no-op)
workerStop ==
    /\ wctx = "live"
    /\ wctx' = "canceled"
    /\ stopCalled' = TRUE
    /\ units' = cancelChildren(units)
    /\ UNCHANGED <<wpc, tickPending, ticksFired, ticksReceived, cyclesStarted,
                   cancelledAtStart, launched, successCount, errorCount,
                   summary, rows, lastDoc, news, date, processor>>

\* the owner of a worker calls Stop
Stop == workerStop /\ UNCHANGED app

(***************************************************************************)
(* Worker.run, Worker.processAllFeeds                                      *)
(***************************************************************************)
\* the for loop of processAllFeeds: wg.Add(1) and one goroutine per address
spawnUnits == [u \in Urls |-> NewUnit("start")]

\* entry of processAllFeeds: fresh counters, one goroutine per address
EnterCycle ==
    /\ cyclesStarted' = cyclesStarted + 1
    /\ cancelledAtStart' = (wctx = "canceled")
    /\ units' = spawnUnits
    /\ launched' = [u \in Urls |-> launched[u] + (IF units'[u].pc = "start" THEN 1 ELSE 0)]
    /\ successCount' = 0
    /\ errorCount' = 0
    /\ summary' = summary
    /\ wpc' = "cycle"

\* run entering its loop without a first processAllFeeds
RunFirst_waitForTick ==
    /\ wpc = "started"
    /\ wpc' = "select"
    /\ UNCHANGED <<wctx, stopCalled, tickPending, ticksFired, ticksReceived,
                   cyclesStarted, cancelledAtStart, launched, successCount,
                   errorCount, summary, units, rows, lastDoc, news, app, date, processor>>

\* run up to its first processAllFeeds: the ticker is created, then the first
\* cycle starts without waiting for a tick
RunFirst ==
    /\ wpc = "started"
    /\ EnterCycle
    /\ UNCHANGED <<wctx, stopCalled, tickPending, ticksFired, ticksReceived, rows, lastDoc, news, app, date, processor>>

\* a processAllFeeds whose errors end run
CycleEnd_stopOnError ==
    /\ wpc = "cycle"
    /\ \A u \in Urls : units[u].pc = "done"
    /\ summary' = [cycle |-> cyclesStarted, successful |-> successCount,
                   errors |-> errorCount, total |-> Cardinality(Urls)]
    /\ wpc' = IF errorCount > 0 THEN "stopped" ELSE "select"
    /\ UNCHANGED <<wctx, stopCalled, tickPending, ticksFired, ticksReceived, cyclesStarted,
                   cancelledAtStart, launched, successCount,
                   errorCount, units, rows, lastDoc, news, app, date, processor>>

\* a processAllFeeds that logs its summary without wg.Wait()
CycleEnd_noWait ==
    /\ wpc = "cycle"
    /\ summary' = [cycle |-> cyclesStarted, successful |-> successCount,
                   errors |-> errorCount, total |-> Cardinality(Urls)]
    /\ wpc' = "select"
    /\ UNCHANGED <<wctx, stopCalled, tickPending, ticksFired, ticksReceived, cyclesStarted,
                   cancelledAtStart, launched, successCount,
                   errorCount, units, rows, lastDoc, news, app, date, processor>>

\* wg.Wait() returns and the cycle summary is logged
CycleEnd ==
    /\ wpc = "cycle"
    /\ \A u \in Urls : units[u].pc = "done"
    /\ summary' = [cycle |-> cyclesStarted, successful |-> successCount,
                   errors |-> errorCount, total |-> Cardinality(Urls)]
    /\ wpc' = "select"
    /\ UNCHANGED <<wctx, stopCalled, tickPending, ticksFired, ticksReceived, cyclesStarted,
                   cancelledAtStart, launched, successCount,
                   errorCount, units, rows, lastDoc, news, app, date, processor>>

\* a ticker whose tick starts processAllFeeds in a goroutine of its own,
\* whether or not the previous call has returned
SelectTick_duringCycle ==
    /\ wpc \in {"select", "cycle"}
    /\ tickPending
    /\ tickPending' = FALSE
    /\ ticksReceived' = ticksReceived + 1
    /\ EnterCycle
    /\ UNCHANGED <<wctx, stopCalled, ticksFired, rows, lastDoc, news, app, date, processor>>

\* select: case <-ticker.C
SelectTick ==
    /\ wpc = "select"
    /\ tickPending
    /\ tickPending' = FALSE
    /\ ticksReceived' = ticksReceived + 1
    /\ EnterCycle
    /\ UNCHANGED <<wctx, stopCalled, ticksFired, rows, lastDoc, news, app, date, processor>>

\* a select without the case <-w.ctx.Done(): run keeps waiting
SelectDone_ignored ==
    /\ wpc = "select"
    /\ wctx = "canceled"
    /\ UNCHANGED vars

\* select: case <-w.ctx.Done()
SelectDone ==
    /\ wpc = "select"
    /\ wctx = "canceled"
    /\ wpc' = "stopped"
    /\ UNCHANGED <<wctx, stopCalled, tickPending, ticksFired, ticksReceived, cyclesStarted,
                   cancelledAtStart, launched, successCount,
                   errorCount, summary, units, rows, lastDoc, news, app, date, processor>>

\* the ticker fires; ticker.C buffers one tick, further ticks are dropped
Tick ==
    /\ wpc \in {"cycle", "select"}
    /\ ticksFired < MaxTicks
    /\ ticksFired' = ticksFired + 1
    /\ tickPending' = TRUE
    /\ UNCHANGED <<wpc, wctx, stopCalled, ticksReceived, cyclesStarted, 
                   cancelledAtStart, launched, successCount, errorCount,
                   summary, units, rows, lastDoc, news, app, date, processor>>


(***************************************************************************)
(* One unit of work: the goroutine of processAllFeeds and its ProcessFeed  *)
(***************************************************************************)
\* the goroutine without the check of w.ctx.Err()
unitStart_noCheck(un, ctx, proc) ==
    IF proc = "nil" THEN [un EXCEPT !.pc = "done", !.outcome = "noprocessor"]
    ELSE [un EXCEPT !.pc = "fetch",
                    !.opCtx = IF Err(ctx) # "nil" THEN "canceled" ELSE "live"]

\* a goroutine that reports its early return as a failed ProcessFeed
unitStart_earlyAsError(un, ctx, proc) ==
    IF Err(ctx) # "nil" \/ proc = "nil"
    THEN [un EXCEPT !.pc = "count", !.ret = wrapError("start", "", "early")]
    ELSE [un EXCEPT !.pc = "fetch", !.opCtx = "live"]

\* goroutine entry: the check of w.ctx.Err(), then context.WithTimeout, then
\* the check of w.processor; the deferred opCancel and wg.Done run on each
\* return
unitStart(un, ctx, proc) ==
    IF Err(ctx) # "nil" THEN [un EXCEPT !.pc = "done", !.outcome = "skipped"]
    ELSE IF proc = "nil" THEN [un EXCEPT !.pc = "done", !.outcome = "noprocessor"]
    ELSE [un EXCEPT !.pc = "fetch", !.opCtx = "live"]

UnitStart(u) ==
    /\ units[u].pc = "start"
    /\ units' = [units EXCEPT ![u] = unitStart(@, wctx, processor)]
    /\ UNCHANGED <<workerVars, rows, lastDoc>>

\* a return statement of ProcessFeed: the deferred reader.Close() runs if
\* Fetch had returned a reader, and the goroutine has the result
return(un) ==
    IF un.pc = "ret"
    THEN [un EXCEPT !.body = IF un.reader THEN deferredClose(@) ELSE @,
                    !.pc = "count"]
    ELSE un

\* lastDoc after ProcessFeed of address u got as far as un
noteReturn(u, un) ==
    IF un.pc = "ret" /\ lastDoc.url = u THEN NoDoc ELSE lastDoc

\* ProcessFeed: uc.fetcher.Fetch(ctx, url), and the return when it failed;
\* docs are the documents the source can serve
fetchStep(u, docs) ==
    /\ units[u].pc = "fetch"
    /\ \E outcome \in FetchOutcomes :
       \E served \in docs :
         LET r == Fetch(Err(units[u].opCtx), outcome)
             un == [units[u] EXCEPT
                       !.calls = Append(@, Call("fetch", r.err)),
                       !.body = r.body,
                       !.reader = r.reader,
                       !.doc = IF r.reader THEN served ELSE "none",
                       !.ret = processResult("fetch", u, r.err),
                       !.pc = afterFetch(r.err)]
         IN  /\ units' = [units EXCEPT ![u] = return(un)]
             /\ lastDoc' = noteReturn(u, un)
    /\ UNCHANGED <<workerVars, rows>>

UnitFetch(u) == fetchStep(u, DocNames)

\* ProcessFeed: uc.parser.Parse(ctx, reader), and the return when it failed
UnitParse(u) ==
    /\ units[u].pc = "parse"
    /\ LET r == Parse(Err(units[u].opCtx), units[u].doc)
           un == [units[u] EXCEPT
                     !.calls = Append(@, Call("parse", r.err)),
                     !.feed = IF r.feed THEN "set" ELSE "nil",
                     !.decoded = r.decoded,
                     !.items = r.items,
                     !.ret = processResult("parse", u, r.err),
                     !.pc = afterParse(r.err)]
       IN  /\ units' = [units EXCEPT ![u] = return(un)]
           /\ lastDoc' = noteReturn(u, un)
    /\ UNCHANGED <<workerVars, rows>>

\* lastDoc after SaveNews of address u returned r for document doc: a
\* failed SaveNews of another address leaves it, as it wrote nothing
noteSave(u, doc, r) ==
    IF r.err = "nil" THEN [url |-> u, doc |-> doc]
    ELSE IF lastDoc.url = u THEN NoDoc ELSE lastDoc

\* the steps the database can fail at: on a closed pool Begin fails
saveFaults(pool) == IF pool = "closed" THEN {"begin"} ELSE SaveFaults

\* ProcessFeed: uc.storage.SaveNews(ctx, feed), and the return
UnitSave(u) ==
    /\ units[u].pc = "save"
    /\ \E fault \in saveFaults(app.pool) :
         LET r == SaveNews(Err(units[u].opCtx), rows, units[u].items, fault)
         IN  /\ rows' = r.rows
             /\ lastDoc' = noteSave(u, units[u].doc, r)
             /\ units' = [units EXCEPT ![u] =
                    return([@ EXCEPT
                               !.calls = Append(@, Call("save", r.err)),
                               !.tx = r.tx,
                               !.saved = r.count,
                               !.rerun = (lastDoc = [url |-> u, doc |-> units[u].doc]),
                               !.ret = processResult("save", u, r.err),
                               !.pc = "ret"])]
    /\ UNCHANGED workerVars

unitOutcome(ret) == IF ret # nilError THEN "failed" ELSE "ok"

\* a goroutine whose failure cancels the context its siblings share
UnitCount_cancelSiblings(u) ==
    /\ units[u].pc = "count"
    /\ IF units[u].ret # nilError
       THEN /\ errorCount' = errorCount + 1
            /\ wctx' = "canceled"
            /\ units' = [cancelChildren(units) EXCEPT ![u] =
                   [NewUnit("done") EXCEPT !.outcome = "failed"]]
            /\ UNCHANGED successCount
       ELSE /\ successCount' = successCount + 1
            /\ units' = [units EXCEPT ![u] =
                   [NewUnit("done") EXCEPT !.outcome = "ok"]]
            /\ UNCHANGED <<errorCount, wctx>>
    /\ UNCHANGED <<wpc, stopCalled, tickPending, ticksFired, ticksReceived,
                   cyclesStarted, cancelledAtStart, launched,
                   summary, rows, lastDoc, news, app, date, processor>>

\* counters incremented by a read and a write that are not one atomic
\* step: of two goroutines that read the same value one increment is lost
UnitCount_lostUpdate(u) ==
    /\ units[u].pc = "count"
    /\ IF \E v \in Urls \ {u} : units[v].pc = "count"
                               /\ unitOutcome(units[v].ret) = unitOutcome(units[u].ret)
       THEN UNCHANGED <<successCount, errorCount>>
       ELSE IF units[u].ret # nilError
       THEN errorCount' = errorCount + 1 /\ UNCHANGED successCount
       ELSE successCount' = successCount + 1 /\ UNCHANGED errorCount
    /\ units' = [units EXCEPT ![u] =
           [NewUnit("done") EXCEPT !.outcome = unitOutcome(units[u].ret)]]
    /\ UNCHANGED <<wpc, wctx, stopCalled, tickPending, ticksFired, ticksReceived,
                   cyclesStarted, cancelledAtStart, launched,
                   summary, rows, lastDoc, news, app, date, processor>>

\* the goroutine counts the result (atomic.AddInt64), then the deferred
\* opCancel and wg.Done run
UnitCount(u) ==
    /\ units[u].pc = "count"
    /\ IF units[u].ret # nilError
       THEN errorCount' = errorCount + 1 /\ UNCHANGED successCount
       ELSE successCount' = successCount + 1 /\ UNCHANGED errorCount
    /\ units' = [units EXCEPT ![u] =
           [NewUnit("done") EXCEPT !.outcome = unitOutcome(units[u].ret)]]
    /\ UNCHANGED <<wpc, wctx, stopCalled, tickPending, ticksFired, ticksReceived,
                   cyclesStarted, cancelledAtStart, launched,
                   summary, rows, lastDoc, news, app, date, processor>>

\* the 30 s deadline of a unit's context expires while ProcessFeed can
\* still observe it
Timeout(u) ==
    /\ units[u].pc \in {"fetch", "parse", "save"}
    /\ units[u].opCtx = "live"
    /\ units' = [units EXCEPT ![u] = [@ EXCEPT !.opCtx = "deadline"]]
    /\ UNCHANGED <<workerVars, rows, lastDoc>>

(***************************************************************************)
(* The read side: NewsGetterUseCase.GetNews                                *)
(***************************************************************************)
\* the limits read callers pass
Limits == {-5, 0, 1, 2, 3}

\* a read caller calls GetNews(n) and gets an answer
GetNewsCall ==
    \E n \in Limits :
    \E fault \in QueryFaults :
    \E r \in UseCaseGetNews(rows, n, fault) :
        /\ news' = [n |-> n, fault |-> fault, items |-> r.items, err |-> r.err]
        /\ UNCHANGED <<wpc, wctx, stopCalled, tickPending, ticksFired, ticksReceived,
                       cyclesStarted, cancelledAtStart, launched, successCount,
                       errorCount, summary, units, rows, lastDoc, app, date, processor>>

Next ==
    \/ Start
    \/ Stop
    \/ RunFirst
    \/ CycleEnd
    \/ SelectTick
    \/ SelectDone
    \/ Tick
    \/ \E u \in Urls : UnitStart(u)
    \/ \E u \in Urls : UnitFetch(u)
    \/ \E u \in Urls : UnitParse(u)
    \/ \E u \in Urls : UnitSave(u)
    \/ \E u \in Urls : UnitCount(u)
    \/ \E u \in Urls : Timeout(u)

Spec == Init /\ [][Next]_vars


(***************************************************************************)
(* ProcessFeed: stages                                                     *)
(***************************************************************************)
StageOrder == <<"fetch", "parse", "save">>

\* ProcessFeed of address u has returned to the goroutine
Returned(u) == units[u].pc = "count"

\* the index of the first failed call of a log, 0 when none failed
FirstFailure(calls) ==
    IF \E i \in 1..Len(calls) : calls[i].err # "nil"
    THEN CHOOSE i \in 1..Len(calls) :
             /\ calls[i].err # "nil"
             /\ \A j \in 1..(i - 1) : calls[j].err = "nil"
    ELSE 0

\* C3: a stage failure short-circuits the remaining stages: once Fetch has
\* failed neither the parser nor the store is called, and once Parse has
\* failed the store is not called
C3_ShortCircuit ==
    \A u \in Urls :
        LET calls == units[u].calls
        IN  \A i \in 1..Len(calls) :
                calls[i].err # "nil" =>
                    \A j \in (i + 1)..Len(calls) :
                        /\ calls[i].stage = "fetch" => calls[j].stage \notin {"parse", "save"}
                        /\ calls[i].stage = "parse" => calls[j].stage # "save"

\* a ProcessFeed call has returned after its fetch failed, another after its
\* parse failed
C3_Witness ==
    \E u, v \in Urls :
        /\ Returned(u) /\ Len(units[u].calls) = 1
        /\ units[u].calls[1] \in {Call("fetch", "status"), Call("fetch", "net")}
        /\ Returned(v) /\ Len(units[v].calls) = 2
        /\ units[v].calls[2] = Call("parse", "decode")

\* C4: within one ProcessFeed call the stages run in the order fetch, parse,
\* save, each at most once, and a stage is called only after the one before
\* it returned without error
C4_StageOrder ==
    \A u \in Urls :
        LET calls == units[u].calls
        IN  /\ Len(calls) <= Len(StageOrder)
            /\ \A i \in 1..Len(calls) : calls[i].stage = StageOrder[i]
            /\ \A i \in 1..(Len(calls) - 1) : calls[i].err = "nil"

\* a ProcessFeed call has run all three stages
C4_Witness ==
    \E u \in Urls :
        /\ Returned(u)
        /\ units[u].calls = <<Call("fetch", "nil"), Call("parse", "nil"), Call("save", "nil")>>
        /\ units[u].tx = "committed"

\* C5: ProcessFeed returns nil only if all three stages succeeded; otherwise
\* it returns an error that names the first failing stage and wraps the
\* error that stage returned
C5_Result ==
    \A u \in Urls :
        Returned(u) =>
            LET calls == units[u].calls
                f == FirstFailure(calls)
            IN  IF f = 0
                THEN /\ units[u].ret = nilError
                     /\ Len(calls) = 3
                ELSE /\ units[u].ret.stage = calls[f].stage
                     /\ units[u].ret.cause = calls[f].err
                     /\ units[u].ret.feed = feedNames[u]

\* a ProcessFeed call has returned the save stage's error
C5_Witness ==
    \E u \in Urls :
        /\ Returned(u)
        /\ Len(units[u].calls) = 3
        /\ units[u].calls[3].err = "commit"
        /\ units[u].ret.stage = "save"

\* C6: a stream returned by Fetch is open when the parser is called and
\* still open when the parser has returned it a feed, and is closed when
\* ProcessFeed has returned, on every exit path; a failed Fetch leaves no
\* stream open
C6_StreamReleased ==
    \A u \in Urls :
        /\ units[u].pc \in {"parse", "save"} => units[u].body = "open"
        /\ Returned(u) => units[u].body # "open"
        /\ (Len(units[u].calls) >= 1 /\ units[u].calls[1].err # "nil")
               => units[u].body # "open"

\* ProcessFeed calls have returned with the stream closed, one after a parse
\* failure and one after calling the store
C6_Witness ==
    \E u, v \in Urls :
        /\ Returned(u) /\ units[u].body = "closed"
        /\ Len(units[u].calls) = 2 /\ units[u].ret.stage = "parse"
        /\ Returned(v) /\ units[v].body = "closed"
        /\ Len(units[v].calls) = 3


(***************************************************************************)
(* Worker: cycles                                                          *)
(***************************************************************************)
\* processAllFeeds has logged the summary of the last cycle it started
CycleDone == summary.cycle = cyclesStarted /\ cyclesStarted > 0

Failed == {u \in Urls : units[u].outcome = "failed"}

\* the summary reports exactly one failure and F-1 successes, and every
\* unit but the failed one ended with a ProcessFeed that returned nil
OneFailureReported ==
    /\ summary.errors = 1
    /\ summary.successful = Cardinality(Urls) - 1
    /\ \A u \in Urls \ Failed : units[u].outcome = "ok"

\* a ProcessFeed that returned nil ran all three stages, and every entry of
\* its feed is in the table
Saved(u) ==
    /\ units[u].calls = <<Call("fetch", "nil"), Call("parse", "nil"), Call("save", "nil")>>
    /\ \A i \in 1..Len(units[u].items) : units[u].items[i].Link \in Links(rows)

\* C1 as stated: in every cycle in which exactly one unit fails, the other
\* F-1 are processed and saved and the summary reports 1 failure and F-1
\* successes
C1_Original ==
    (CycleDone /\ Cardinality(Failed) = 1) => OneFailureReported

\* C1, amended: in a cycle that ends without Stop having been called, if
\* exactly one unit fails then the other F-1 are fully processed and saved
\* and the summary reports exactly 1 failure and F-1 successes
C1_FailureIsolated ==
    /\ (CycleDone /\ ~stopCalled /\ Cardinality(Failed) = 1) => OneFailureReported
    /\ \A u \in Urls : (Returned(u) /\ units[u].ret = nilError) => Saved(u)

\* a cycle of a worker that was not stopped has ended with one failed unit
\* and the summary 1 failure, F-1 successes, the table holding saved rows
C1_Witness ==
    /\ CycleDone /\ ~stopCalled
    /\ Cardinality(Failed) = 1
    /\ summary.errors = 1 /\ summary.successful = Cardinality(Urls) - 1
    /\ rows # << >>

\* C2: a ProcessFeed that succeeds on the document of the address's last
\* ProcessFeed, which succeeded too, no other SaveNews having run in
\* between, leaves the table as it was
C2_Idempotent ==
    [][\A u \in Urls :
          ( /\ units[u].pc = "save"
            /\ units'[u].pc = "count"
            /\ units'[u].ret = nilError
            /\ lastDoc = [url |-> u, doc |-> units[u].doc] )
          => rows' = rows]_vars

\* a second successful ProcessFeed on an unchanged document with entries
C2_Witness ==
    \E u \in Urls :
        /\ Returned(u)
        /\ units[u].rerun
        /\ units[u].ret = nilError
        /\ units[u].tx = "committed"

\* C7: a unit that finds the worker's context cancelled when it starts ends
\* without calling ProcessFeed, and during a cycle that began after the
\* cancellation no collaborator is called and the table does not change
C7_CancelledCycleIdle ==
    [][ /\ \A u \in Urls :
             (units[u].pc = "start" /\ wctx = "canceled" /\ units'[u] # units[u])
                 => (units'[u].pc = "done" /\ units'[u].outcome = "skipped"
                     /\ units'[u].calls = << >> /\ rows' = rows)
        /\ cancelledAtStart' =>
               /\ \A u \in Urls : /\ units'[u].pc \in {"start", "done"}
                                   /\ units'[u].calls = << >>
                                   /\ units'[u].outcome \in {"none", "skipped"}
               /\ cancelledAtStart => rows' = rows ]_vars

\* a cycle that began after the cancellation has ended, every unit skipped
C7_Witness ==
    /\ cancelledAtStart
    /\ CycleDone
    /\ \A u \in Urls : units[u].outcome = "skipped"
    /\ summary.successful = 0 /\ summary.errors = 0

C9_NoCycleAfterStop ==
    [][(stopCalled /\ cyclesStarted >= 1) => cyclesStarted' = cyclesStarted]_vars

\* C11: a unit's error stops nothing but the unit: counting it changes
\* neither the worker's context nor the loop nor a sibling, a cycle ends in
\* the select whatever its units returned, run returns only after the
\* context was cancelled, and a tick received starts a cycle with a fresh
\* unit for every configured address
C11_FailuresNotFatal ==
    [][ /\ \A u \in Urls :
             (units[u].pc = "count" /\ units'[u].pc = "done")
                 => /\ wctx' = wctx /\ wpc' = wpc
                    /\ \A v \in Urls \ {u} : units'[v] = units[v]
        /\ (wpc = "cycle" /\ wpc' # "cycle") => wpc' = "select"
        /\ (wpc # "stopped" /\ wpc' = "stopped") => wctx = "canceled"
        /\ ticksReceived' = ticksReceived + 1
               => /\ wpc' = "cycle"
                  /\ \A u \in Urls : /\ units'[u] = NewUnit("start")
                                      /\ launched'[u] = launched[u] + 1 ]_vars

\* after a cycle in which every unit failed, the next tick has started a
\* cycle in which every address is being fetched again
C11_Witness ==
    /\ ~stopCalled
    /\ wpc = "cycle"
    /\ cyclesStarted = 2
    /\ summary.cycle = 1 /\ summary.errors = Cardinality(Urls)
    /\ \A u \in Urls : units[u].pc = "fetch" /\ launched[u] = 2

(***************************************************************************)
(* Table news                                                              *)
(***************************************************************************)
\* the step is the return of a SaveNews call of address u
SaveReturns(u) == units[u].pc = "save" /\ units'[u].pc = "count"

\* ProcessFeed of address u has returned after a SaveNews that committed
Committed(u) == Returned(u) /\ units[u].tx = "committed"

\* C12: the table holds at most one row per link, whatever SaveNews calls
\* ran and in whatever order the units of a cycle interleaved
C12_OneRecordPerLink ==
    \A i, j \in 1..Len(rows) : rows[i].Link = rows[j].Link => i = j

\* two units of one cycle have committed feeds that share a link, one of
\* them carrying a link twice, and the table holds one row per link
C12_Witness ==
    \E u, v \in Urls :
        /\ u # v
        /\ Committed(u) /\ units[u].doc = "d2"
        /\ Committed(v) /\ units[v].doc = "d1"
        /\ \E i, j \in 1..Len(units[u].items) :
               i # j /\ units[u].items[i].Link = units[u].items[j].Link
        /\ Links(rows) = {"a", "b", ""}
        /\ Len(rows) = 3

\* C13: a SaveNews that returns an error leaves the committed table, which
\* is all GetNews reads, as it was
C13_BatchAtomic ==
    [][\A u \in Urls :
          (SaveReturns(u) /\ units'[u].ret # nilError) => rows' = rows]_vars

\* a SaveNews has failed after Begin with an entry of its feed not in the
\* table, which holds the rows of a committed batch
C13_Witness ==
    \E u, v \in Urls :
        /\ Returned(u)
        /\ Len(units[u].calls) = 3
        /\ units[u].calls[3].err \in {"batch", "commit"}
        /\ \E i \in 1..Len(units[u].items) : units[u].items[i].Link \notin Links(rows)
        /\ Committed(v)
        /\ rows # << >>

\* C14 as stated: the count a successful SaveNews returns is the number of
\* rows the call added to the table
C14_CountsNewRows ==
    [][\A u \in Urls :
          (SaveReturns(u) /\ units'[u].ret = nilError)
              => units'[u].saved = Len(rows') - Len(rows)]_vars

\* C15 as stated: every entry of a feed passed to SaveNews, and so every
\* row of the table, has a non-empty link
C15_LinkNonEmpty ==
    /\ \A u \in Urls :
           units[u].feed = "set" =>
               \A i \in 1..Len(units[u].items) : units[u].items[i].Link # ""
    /\ \A i \in 1..Len(rows) : rows[i].Link # ""

\* C16: a stored row never changes: every step leaves the rows of the table
\* in place and as they were, whatever a SaveNews carries for their links
C16_RowsImmutable ==
    [][ /\ Len(rows') >= Len(rows)
        /\ \A i \in 1..Len(rows) : rows'[i] = rows[i] ]_vars

\* the table holds the entry of link "a" as document d1 carried it, after a
\* SaveNews of document d2, which carries that link with another title and
\* date, has committed
C16_Witness ==
    /\ Len(rows) >= 1
    /\ rows[1] = [Title |-> "Item 1", Link |-> "a", Description |-> "Descr 1", PubDate |-> 1]
    /\ \E u \in Urls :
           /\ Committed(u)
           /\ units[u].doc = "d2"
           /\ \E k \in 1..Len(units[u].items) :
                  /\ units[u].items[k].Link = "a"
                  /\ units[u].items[k].Title # rows[1].Title
                  /\ units[u].items[k].PubDate # rows[1].PubDate

(***************************************************************************)
(* GetNews on the tables ingestion can leave                               *)
(***************************************************************************)
\* the entries the parser makes of the documents
Entries ==
    UNION {{convertItems(Doc(d).items)[i] : i \in 1..Len(convertItems(Doc(d).items))}
           : d \in DocNames}

\* the tables SaveNews can leave: entries in any order, one row per link
Tables ==
    {t \in UNION {[1..k -> Entries] : k \in 0..Cardinality({e.Link : e \in Entries})} :
        \A i, j \in 1..Len(t) : t[i].Link = t[j].Link => i = j}

\* a process started on a table earlier runs have filled
ReadInit ==
    /\ InitWorker
    /\ rows \in Tables
    /\ news = NoNews

ReadNext == GetNewsCall

ReadSpec == ReadInit /\ [][ReadNext]_vars

\* the limit GetNews(n) is to apply
Expected(n) == IF n > 0 THEN n ELSE defaultNewsLimit

\* C17: when the database answers, GetNews(n) returns without error the
\* first L rows of the table in the order of pub_date, most recent first,
\* where L = n if n > 0 and the configured default otherwise; for n <= 0 the
\* answer is empty only if the table is; and the use case returns what the
\* store returns
C17_GetNewsLimit ==
    /\ (news # NoNews /\ news.fault = "none") =>
           LET items == news.items
           IN  /\ news.err = "nil"
               /\ Len(items) = Min(Expected(news.n), Len(rows))
               /\ \A i \in 1..Len(items) : \E k \in 1..Len(rows) : items[i] = rows[k]
               /\ \A i, j \in 1..Len(items) :
                      i < j => /\ items[i].Link # items[j].Link
                               /\ items[i].PubDate >= items[j].PubDate
               /\ \A k \in 1..Len(rows) :
                      (\A i \in 1..Len(items) : items[i] # rows[k])
                          => \A i \in 1..Len(items) : rows[k].PubDate <= items[i].PubDate
               /\ (news.n <= 0 /\ rows # << >>) => items # << >>
    /\ \A n \in Limits : \A fault \in QueryFaults :
           UseCaseGetNews(rows, n, fault) = GetNews(rows, n, fault)

\* GetNews(0) on a table of three rows that are not in the order of their
\* dates has returned the default number of rows, the most recent first
C17_Witness ==
    /\ news.n = 0 /\ news.err = "nil"
    /\ Len(rows) = 3
    /\ \E i, j \in 1..Len(rows) : i < j /\ rows[i].PubDate < rows[j].PubDate
    /\ Len(news.items) = defaultNewsLimit
    /\ news.items[1].PubDate > news.items[Len(news.items)].PubDate
    /\ \A k \in 1..Len(rows) : rows[k].PubDate <= news.items[1].PubDate

(***************************************************************************)
(* XMLParser.Parse and HTTPFetcher.Fetch as ProcessFeed calls them         *)
(***************************************************************************)
\* some layout of parsePubDate matches the item's trimmed pubDate
Parsable(dto) ==
    \E i \in 1..Len(formats) : timeParse(formats[i], TrimSpace(dto.PubDate)) # NoTime

\* the items of a document whose dates parse, in document order
Kept(name) == SelectSeq(Doc(name).items, Parsable)

ctxErrors == {"canceled", "deadline"}

\* the step is the return of the Parse call of address u
ParseReturns(u) == units[u].pc = "parse" /\ units'[u].pc # "parse"

\* the step is the return of the Fetch call of address u
FetchReturns(u) == units[u].pc = "fetch" /\ units'[u].pc # "fetch"

\* C18: for a decodable document Parse, called with a live context, returns
\* no error and a feed whose entries are the items whose dates parse, in
\* document order, with title, link and description as the document has
\* them; with no such item the feed is empty
C18_ParseKeepsValid ==
    [][\A u \in Urls :
          ( /\ ParseReturns(u)
            /\ Err(units[u].opCtx) = "nil"
            /\ Doc(units[u].doc).decodable )
          => LET r == units'[u]
                 kept == Kept(units[u].doc)
             IN  /\ r.calls[2] = Call("parse", "nil")
                 /\ r.feed = "set"
                 /\ Len(r.items) = Len(kept)
                 /\ \A i \in 1..Len(kept) :
                        /\ r.items[i].Title = kept[i].Title
                        /\ r.items[i].Link = kept[i].Link
                        /\ r.items[i].Description = kept[i].Description
                        /\ r.items[i].PubDate # NoTime ]_vars

\* Parse has returned two entries for document d1, whose second of three
\* items has no parsable date, and an empty feed for the empty document
C18_Witness ==
    \E u, v \in Urls :
        /\ units[u].doc = "d1" /\ units[u].feed = "set"
        /\ Len(Doc("d1").items) = 3
        /\ Len(units[u].items) = 2
        /\ units[u].items[2].Title = "Item 3"
        /\ units[v].doc = "empty" /\ units[v].feed = "set"
        /\ units[v].items = << >>

\* C19: Parse returns a feed exactly when it returns no error; called with
\* a context that is cancelled or expired it returns the context's error
\* without decoding the stream, and on an undecodable document a decode
\* error, the feed being nil in both cases
C19_ParseFeedOrError ==
    [][\A u \in Urls :
          ParseReturns(u)
          => LET r == units'[u]
                 c == Err(units[u].opCtx)
             IN  /\ (r.feed = "set") <=> (r.calls[2].err = "nil")
                 /\ r.feed = "nil" => r.items = << >>
                 /\ c # "nil" => /\ r.calls[2].err = c
                                 /\ ~r.decoded
                                 /\ r.feed = "nil"
                 /\ (c = "nil" /\ ~Doc(units[u].doc).decodable)
                        => /\ r.calls[2].err = "decode"
                           /\ r.feed = "nil" ]_vars

\* one Parse call has returned the cancellation without decoding, another
\* a decode error
C19_Witness ==
    \E u, v \in Urls :
        /\ Returned(u) /\ Len(units[u].calls) = 2
        /\ units[u].calls[2] = Call("parse", "canceled")
        /\ units[u].feed = "nil" /\ ~units[u].decoded
        /\ Returned(v) /\ Len(units[v].calls) = 2
        /\ units[v].calls[2] = Call("parse", "decode")
        /\ units[v].feed = "nil" /\ units[v].decoded

\* C20: Fetch returns a stream exactly when it returns no error; a non-200
\* response, a URL no request can be made of and a context that is
\* cancelled or expired each give an error, and the body of a non-200
\* response is closed when Fetch returns
C20_FetchStreamOrError ==
    [][\A u \in Urls :
          FetchReturns(u)
          => LET r == units'[u]
                 e == r.calls[1].err
             IN  /\ r.reader <=> (e = "nil")
                 /\ r.reader => (r.body = "open" /\ r.doc # "none")
                 /\ ~r.reader => (r.body # "open" /\ r.doc = "none")
                 /\ e = "status" => r.body = "closed"
                 /\ Err(units[u].opCtx) # "nil" => e # "nil"
                 /\ e \in {"nil", "status", "net", "request"} \cup ctxErrors ]_vars

\* one Fetch call has returned the error of a non-200 response, its body
\* closed, another the error of a cancelled context
C20_Witness ==
    \E u, v \in Urls :
        /\ Returned(u) /\ units[u].calls = <<Call("fetch", "status")>>
        /\ ~units[u].reader /\ units[u].body = "closed"
        /\ Returned(v) /\ units[v].calls = <<Call("fetch", "canceled")>>
        /\ ~units[v].reader /\ units[v].body = "none"

(***************************************************************************)
(* processAllFeeds: the wait, the counters, the unit contexts              *)
(***************************************************************************)
\* the goroutine of address u is running
InFlight(u) == units[u].pc \in {"start", "fetch", "parse", "save", "count"}

\* the units whose goroutine returned before it called ProcessFeed
Early == {u \in Urls : units[u].outcome \in {"skipped", "noprocessor"}}

\* the units whose ProcessFeed returned nil
Succeeded == {u \in Urls : units[u].outcome = "ok"}

\* C22: the cycle summary is produced only after every unit launched in the
\* cycle has finished: processAllFeeds neither logs its summary nor returns
\* while one of its units is still running
C22_SummaryAfterUnits ==
    [][ (summary' # summary \/ (wpc = "cycle" /\ wpc' # "cycle"))
            => \A u \in Urls : units[u].pc = "done" ]_vars

\* the summary of a cycle whose units all ran ProcessFeed has been logged
C22_Witness ==
    /\ CycleDone
    /\ wpc = "select"
    /\ summary.total = Cardinality(Urls)
    /\ \A u \in Urls : units[u].pc = "done" /\ units[u].outcome \in {"ok", "failed"}

\* C23: under every interleaving of the units of a cycle the counters hold
\* the number of units whose ProcessFeed returned nil and the number whose
\* ProcessFeed returned an error, while the cycle runs and in the summary
C23_CountersExact ==
    /\ wpc = "cycle" =>
          /\ successCount = Cardinality(Succeeded)
          /\ errorCount = Cardinality(Failed)
    /\ CycleDone =>
          /\ summary.successful = Cardinality(Succeeded)
          /\ summary.errors = Cardinality(Failed)

\* two units hold results of the same kind at once, each about to add to
\* the same counter
C23_Witness ==
    /\ \A u \in Urls : Returned(u)
    /\ \E u, v \in Urls : u # v /\ unitOutcome(units[u].ret) = unitOutcome(units[v].ret)

\* C24: each unit runs under a context of its own derived from the worker's:
\* the expiry of one unit's deadline leaves the worker's context and the
\* contexts of the other units as they were, and cancelling the worker's
\* context cancels the context of every unit in flight
C24_UnitContexts ==
    [][ /\ \A u \in Urls :
              (units[u].opCtx = "live" /\ units'[u].opCtx = "deadline") =>
                  /\ wctx' = wctx
                  /\ \A v \in Urls \ {u} : units'[v].opCtx = units[v].opCtx
        /\ (wctx = "live" /\ wctx' = "canceled") =>
              \A u \in Urls : units[u].opCtx = "live" => units'[u].opCtx = "canceled"
        /\ (wctx' = "canceled") =>
              \A u \in Urls : units'[u].opCtx # "live" ]_vars

\* the deadline of one unit has expired while another unit is in flight
\* under a live context
C24_Witness ==
    \E u, v \in Urls :
        /\ units[u].pc \in {"fetch", "parse", "save"} /\ units[u].opCtx = "deadline"
        /\ units[v].pc \in {"fetch", "parse", "save"} /\ units[v].opCtx = "live"
        /\ wctx = "live"

\* C25: cycles never overlap: a cycle starts only when no cycle is in
\* flight and every unit of the previous cycle has finished, also when a
\* tick came while the previous cycle was running
C25_NoOverlap ==
    [][ cyclesStarted' # cyclesStarted =>
            /\ wpc # "cycle"
            /\ \A u \in Urls : ~InFlight(u) ]_vars

\* a cycle has started on a tick that fired while the cycle before it was
\* running
C25_Witness ==
    /\ cyclesStarted = 2
    /\ ticksReceived = 1
    /\ wpc = "cycle"
    /\ summary.cycle = 1
    /\ \E u \in Urls : InFlight(u)

\* C26: every transaction SaveNews opened is finished when SaveNews returns:
\* committed when it returns nil, rolled back when it returns an error
C26_TxFinished ==
    [][ \A u \in Urls :
            SaveReturns(u) =>
                /\ units'[u].tx \in {"none", "committed", "rolledback"}
                /\ units'[u].tx = "committed" <=> (units'[u].ret = nilError /\ units[u].items # << >>) ]_vars

\* C28: in every cycle summary succeeded + failed <= total, with equality
\* exactly when no unit returned early; a unit that found the worker's
\* context cancelled or no processor is in neither counter
C28_SummaryTotals ==
    CycleDone =>
        /\ summary.successful + summary.errors <= summary.total
        /\ summary.successful + summary.errors = summary.total <=> Early = {}
        /\ summary.successful + summary.errors = summary.total - Cardinality(Early)
        /\ (processor = "nil" \/ cancelledAtStart) =>
               /\ Early = Urls
               /\ summary.successful + summary.errors = 0

\* a summary of a cycle in which one unit returned early and the other ran
\* ProcessFeed
C28_Witness ==
    /\ CycleDone
    /\ \E u, v \in Urls :
          /\ units[u].outcome = "skipped"
          /\ units[v].outcome \in {"ok", "failed"}
    /\ summary.successful + summary.errors = 1

\* C29: SaveNews on a feed without entries returns (0, nil), opens no
\* transaction and leaves the table as it was, so that ProcessFeed on a
\* document without valid items returns nil
C29_EmptyBatchNoOp ==
    [][ \A u \in Urls :
            (SaveReturns(u) /\ units[u].items = << >>) =>
                /\ units'[u].saved = 0
                /\ units'[u].calls[3] = Call("save", "nil")
                /\ units'[u].tx = "none"
                /\ units'[u].ret = nilError
                /\ rows' = rows ]_vars

\* ProcessFeed has returned nil on the document without items, under a
\* context that was no longer live when SaveNews was called
C29_Witness ==
    \E u \in Urls :
        /\ Returned(u)
        /\ units[u].doc = "empty"
        /\ units[u].opCtx # "live"
        /\ units[u].calls = <<Call("fetch", "nil"), Call("parse", "nil"), Call("save", "nil")>>
        /\ units[u].ret = nilError
        /\ units[u].tx = "none"

(***************************************************************************)
(* Termination of the scheduling loop                                      *)
(***************************************************************************)
\* The loop's termination does not depend on what the documents hold: the
\* sources serve one decodable and one undecodable document.
LiveDocs == {"d1", "bad"}

UnitFetchLive(u) == fetchStep(u, LiveDocs)

\* Every goroutine that can take a step eventually takes it; a select whose
\* Done case is ready again and again eventually takes it.
\* A goroutine is at one place at a time, so fairness of its next step is
\* fairness of each of its steps.
UnitStep(u) ==
    \/ UnitStart(u) \/ UnitFetchLive(u) \/ UnitParse(u)
    \/ UnitSave(u) \/ UnitCount(u)

Fairness ==
    /\ WF_vars(RunFirst \/ CycleEnd)
    /\ SF_vars(SelectDone)
    /\ \A u \in Urls : WF_vars(UnitStep(u))

LiveNext ==
    \/ Start
    \/ Stop
    \/ RunFirst
    \/ CycleEnd
    \/ SelectTick
    \/ SelectDone
    \/ Tick
    \/ \E u \in Urls : UnitStart(u)
    \/ \E u \in Urls : UnitFetchLive(u)
    \/ \E u \in Urls : UnitParse(u)
    \/ \E u \in Urls : UnitSave(u)
    \/ \E u \in Urls : UnitCount(u)
    \/ \E u \in Urls : Timeout(u)

LiveSpec == Init /\ [][LiveNext]_vars /\ Fairness

\* C10: after Stop has been called run eventually returns
C10_StopTerminates == stopCalled ~> (wpc = "stopped")

\* run has returned after a Stop that came while a cycle was in flight
C10_Witness ==
    /\ wpc = "stopped"
    /\ stopCalled
    /\ ~cancelledAtStart
    /\ \E u \in Urls : units[u].outcome = "failed"

(***************************************************************************)
(* App.Run, App.Shutdown                                                   *)
(***************************************************************************)
\* what a step of App alone leaves as it was
notApp == <<wpc, wctx, stopCalled, tickPending, ticksFired, ticksReceived,
            cyclesStarted, cancelledAtStart, launched, successCount, errorCount,
            summary, units, rows, lastDoc, news, date, processor>>

\* Run: a.worker.Start(), a.wg.Add(1)
AppRun ==
    /\ app.pc = "new"
    /\ workerStart
    /\ app' = [app EXCEPT !.pc = "listen", !.wg = @ + 1]

\* Run: net.Listen fails and Run returns its error
AppListenFail ==
    /\ app.pc = "listen"
    /\ app' = [app EXCEPT !.pc = "failed"]
    /\ UNCHANGED notApp

\* Run: net.Listen succeeds, a.wg.Add(1), the goroutine of a.server.Serve
\* starts, and Run waits on stopChan
AppServe ==
    /\ app.pc = "listen"
    /\ app' = [app EXCEPT !.pc = "wait", !.wg = @ + 1, !.server = "serving"]
    /\ UNCHANGED notApp

\* Run: a signal arrives on stopChan; Run calls Shutdown
AppSignal ==
    /\ app.pc = "wait"
    /\ app' = [app EXCEPT !.pc = "shutdown"]
    /\ UNCHANGED notApp

\* Shutdown: a.worker.Stop()
ShutdownStop ==
    /\ app.pc = "shutdown"
    /\ workerStop
    /\ app' = [app EXCEPT !.pc = "server"]

\* Shutdown: a.server.Shutdown(shutdownCtx); a Serve that is running
\* returns http.ErrServerClosed
ShutdownServer ==
    /\ app.pc = "server"
    /\ app' = [app EXCEPT !.pc = "pool",
                          !.server = IF @ = "serving" THEN "closing" ELSE @]
    /\ UNCHANGED notApp

\* the goroutine of Run: Serve returns (closed by Shutdown, or failed) and
\* the deferred a.wg.Done() runs
ServeReturn ==
    /\ app.server \in {"serving", "closing"}
    /\ app' = [app EXCEPT !.server = "exited", !.wg = @ - 1]
    /\ UNCHANGED notApp

\* Shutdown: a.dbPool.Close().  SaveNews is one step here, so that no
\* connection is held between two steps and Close does not have to wait.
ShutdownClosePool ==
    /\ app.pc = "pool"
    /\ app' = [app EXCEPT !.pc = "wgwait", !.pool = "closed"]
    /\ UNCHANGED notApp

\* Shutdown: a.wg.Wait() returns when the counter is zero and blocks
\* otherwise; then Shutdown and Run return
ShutdownWait ==
    /\ app.pc \in {"wgwait", "blocked"}
    /\ app' = [app EXCEPT !.pc = IF app.wg = 0 THEN "returned" ELSE "blocked"]
    /\ UNCHANGED notApp

\* app.New hands the worker the feed processor it has built
AppInit == Init /\ processor = "set"

AppNext ==
    \/ AppRun
    \/ AppListenFail
    \/ AppServe
    \/ AppSignal
    \/ ShutdownStop
    \/ ShutdownServer
    \/ ServeReturn
    \/ ShutdownClosePool
    \/ ShutdownWait
    \/ RunFirst
    \/ CycleEnd
    \/ SelectTick
    \/ SelectDone
    \/ Tick
    \/ \E u \in Urls : UnitStart(u)
    \/ \E u \in Urls : UnitFetchLive(u)
    \/ \E u \in Urls : UnitParse(u)
    \/ \E u \in Urls : UnitSave(u)
    \/ \E u \in Urls : UnitCount(u)
    \/ \E u \in Urls : Timeout(u)

\* The goroutine in Shutdown and the goroutine of Serve take the steps they
\* can take, as do the goroutines of the worker.
AppFairness ==
    /\ Fairness
    /\ WF_vars(ShutdownStop \/ ShutdownServer \/ ShutdownClosePool \/ ShutdownWait)
    /\ WF_vars(ServeReturn)

AppSpec == AppInit /\ [][AppNext]_vars /\ AppFairness

\* C21: at the moment the store's connection pool is closed no unit of
\* work and no scheduling loop of the worker is still running
C21_PoolClosedAfterWorker ==
    app.pool = "closed" =>
        /\ wpc = "stopped"
        /\ \A u \in Urls : ~InFlight(u)

\* C27: after the shutdown signal has been received Shutdown, and with it
\* Run, eventually returns
C27_ShutdownTerminates == (app.pc = "shutdown") ~> (app.pc = "returned")

(***************************************************************************)
(* parsePubDate                                                            *)
(***************************************************************************)
\* white space at the ends of a date string
Spaces == {"", " ", "\t", " \n"}

\* date texts: one per layout, one that several layouts match, one that
\* only the last layout matches, and texts no layout matches
Cores == {"Mon, 02 Jan 2006 15:04:05 MST",
          "Tue, 03 Jan 2006 12:00:00 GMT",
          "Wed, 04 Jan 2006 09:00:00 +0000",
          "Wed, 4 Jan 2006 09:00:00 +0000",
          "02 Jan 06 15:04 -0700",
          "02 Jan 06 15:04 MST",
          "2006-01-04T09:00:00Z",
          "not-a-date",
          ""}

DateStrings == {Str(pre, core, post) : pre \in Spaces, core \in Cores, post \in Spaces}

\* a call of parsePubDate(dateStr)
ParsePubDateCall ==
    /\ \E s \in DateStrings :
           date' = [called |-> TRUE, input |-> s, result |-> parsePubDate(s)]
    /\ UNCHANGED <<wpc, wctx, stopCalled, tickPending, ticksFired, ticksReceived,
                   cyclesStarted, cancelledAtStart, launched, successCount,
                   errorCount, summary, units, rows, lastDoc, news, app, processor>>

DateNext == ParsePubDateCall

DateSpec == Init /\ [][DateNext]_vars

\* the positions of the layouts that match s once its white space is trimmed
Matching(s) == {i \in 1..Len(formats) : timeParse(formats[i], TrimSpace(s)) # NoTime}

First(S) == CHOOSE i \in S : \A j \in S : i <= j

\* C30: parsePubDate tries its layouts in their fixed order on the trimmed
\* input, returns the time of the first layout that matches, and fails if
\* and only if no layout matches
C30_FirstMatchingLayout ==
    date.called =>
        LET M == Matching(date.input)
        IN  /\ date.result.ok <=> M # {}
            /\ M # {} =>
                   /\ date.result.layout = First(M)
                   /\ date.result.t = timeParse(formats[First(M)], TrimSpace(date.input))
            /\ M = {} => date.result.t = NoTime /\ date.result.layout = 0

\* parsePubDate has returned the time of its first layout for a string
\* with white space at both ends that several layouts match
C30_Witness ==
    /\ date.called
    /\ date.input.pre # "" /\ date.input.post # ""
    /\ Cardinality(Matching(date.input)) > 1
    /\ date.result.ok /\ date.result.layout = 1

=============================================================================
